---- MODULE Spec2Model ----
(***************************************************************************)
(* Spark!Bytes dashboard: the event / RSVP data-synchronisation flow.      *)
(*                                                                         *)
(* The model has two parts.  The remote store (tables "events" and         *)
(* "event_attendees", plus the realtime change feed) and, for every open   *)
(* browser tab, one Dashboard component with its React state, its mount    *)
(* sequence, its in-flight asynchronous handlers and its realtime          *)
(* callbacks.  Every await of the source is a suspension point: the store  *)
(* performs the request in one step and the continuation of the handler    *)
(* runs in a later step, so other tabs and callbacks interleave.           *)
(***************************************************************************)
EXTENDS Integers, Sequences, FiniteSets, TLC

\* ------------------------------------------------------------------ bounds
NumEvents == 2        \* event ids 1..NumEvents; id 1 exists initially
MaxCap == 2           \* max_attendees ranges over null and 1..MaxCap
MaxOps == 3           \* handler invocations and store-side changes per run
MaxInFlight == 2      \* overlapping asynchronous handlers per tab
MaxFaults == 1        \* requests that fail for a reason outside the program
MaxTime == 1          \* form dates range over 0..MaxTime
MaxCalls == 1         \* recorded calls of a component's callback prop
MaxText == 6          \* characters of a location_coordinates value

\* ------------------------------------------------------------- vocabulary
Tabs == {"t1", "t2"}
Users == {"u1", "u2"}
NoUser == "null"                      \* userId === null
Null == -1                            \* max_attendees: null
InvalidId == 0                        \* eventId '' / 'NaN'
EventIds == 1..NumEvents
Caps == {Null} \cup (1..MaxCap)

VARIABLES
    dbEvents,        \* table events: id -> row, for the rows that exist
    dbAttendees,     \* table event_attendees: user -> event -> number of rows
    nextId,          \* next id the store hands out
    feed,            \* tab -> queue of realtime payloads not yet delivered
    mountPc,         \* tab -> position of fetchUserAndEvents
    isLoading,       \* tab -> Dashboard.isLoading
    userId,          \* tab -> Dashboard.userId
    events,          \* tab -> Dashboard.events
    userRsvps,       \* tab -> ids whose entry in Dashboard.userRsvps is true
    selectedEvent,   \* tab -> <<>> (null) or <<entry>>
    pending,         \* tab -> the asynchronous handlers in flight
    lastToast,       \* tab -> the notice issued last
    redirected,      \* tab -> router.push('/login') has been called
    ops,             \* operations started so far (bounded by MaxOps)
    faults,          \* failed requests so far (bounded by MaxFaults)
    userRole,        \* tab -> Dashboard.userRole
    isAddEventModalOpen,   \* tab -> Dashboard.isAddEventModalOpen
    channels,        \* tab -> live subscriptions to channel "public:events"
    addEventModal,   \* one AddEventModal with its props and callbacks
    facultyCodeModal,\* one FacultyCodeModal with its parent's isOpen
    rsvpButton,      \* one RsvpButton with its props
    eventDetailsModal, \* one EventDetailsModal inside its Dashboard
    transformed      \* one store row and the coords its transform computed

compVars == <<addEventModal, facultyCodeModal, rsvpButton, eventDetailsModal,
              transformed>>

dashVars == <<dbEvents, dbAttendees, nextId, feed, mountPc, isLoading,
              userId, events, userRsvps, selectedEvent, pending, lastToast,
              redirected, ops, faults, userRole, isAddEventModalOpen,
              channels>>

vars == <<dashVars, compVars>>

storeVars == <<dbEvents, dbAttendees, nextId>>
viewVars == <<events, userRsvps, selectedEvent>>

\* ------------------------------------------------------------------ store
\* Number of event_attendees rows of event e (record.event_attendees.length).
AttendeeCount(att, e) ==
    Cardinality({p \in Users \X (1..(MaxOps + 1)) : p[2] <= att[p[1]][e]})

\* Ascending sequence of a finite set of integers.
RECURSIVE Ascending(_)
Ascending(S) ==
    IF S = {} THEN <<>>
    ELSE LET m == CHOOSE x \in S : \A y \in S : x <= y
         IN <<m>> \o Ascending(S \ {m})

\* One DashboardEvent as transformEvents builds it from a joined row.
TransformEvents(e) ==
    [id |-> e,
     attendees |-> AttendeeCount(dbAttendees, e),
     maxAttendees |-> dbEvents[e].max_attendees,
     isPublic |-> dbEvents[e].is_public]

\* fetchPublicEvents: the rows with is_public (every row has the status
\* "available" that createEvent gives it) in start_time order (ids are
\* handed out in start_time order), each with its attendee count.
FetchPublicEvents ==
    LET ids == Ascending({e \in DOMAIN dbEvents : dbEvents[e].is_public})
    IN [i \in 1..Len(ids) |-> TransformEvents(ids[i])]

\* transformEventRecord: a realtime payload row as a DashboardEvent.
TransformEventRecord(row) ==
    [id |-> row.id, attendees |-> 0, maxAttendees |-> row.max_attendees,
     isPublic |-> row.is_public]

\* ------------------------------------------- components: initial state
\* Text is a sequence of characters, so that trim() and the e-mail pattern
\* are computed and not assumed.
EmptyText == <<>>

\* AddEventModal's initial (and reset) formData; both dates are new Date().
EmptyForm ==
    [title |-> EmptyText, startDateTime |-> 0, endDateTime |-> 0,
     organizerName |-> EmptyText, organizerEmail |-> EmptyText,
     foodName |-> EmptyText]

\* AddEventModal as its parent first renders it: closed, nothing entered.
InitAddEventModal ==
    addEventModal =
        [isOpen |-> FALSE, formData |-> EmptyForm, errors |-> {},
         isSubmitting |-> FALSE, submitPc |-> "idle",
         onSubmitCalls |-> <<>>, onCloseCalls |-> 0]

\* FacultyCodeModal as its parent first renders it.
InitFacultyCodeModal ==
    facultyCodeModal =
        [isOpen |-> FALSE, facultyCode |-> "", error |-> "null",
         isSubmitting |-> FALSE, timers |-> <<>>, onSuccessCalls |-> 0]

\* RsvpButton with the props of an event nobody attends; disabled is left out.
InitRsvpButton ==
    rsvpButton =
        [props |-> [eventId |-> 1, count |-> 0, isRsvpd |-> FALSE,
                    disabled |-> "undefined"],
         onToggleCalls |-> <<>>]

\* No selected event: the Dashboard renders no EventDetailsModal.
InitEventDetailsModal ==
    eventDetailsModal =
        [user |-> NoUser, event |-> <<>>, isOpen |-> FALSE,
         isAuthorized |-> FALSE, isLoading |-> TRUE, checks |-> <<>>,
         onEditCalls |-> <<>>, toast |-> "none"]

\* No row has been transformed yet.
InitTransformed ==
    transformed = [pc |-> "idle", location_coordinates |-> <<>>, coords |-> <<>>]

InitComponents ==
    /\ InitTransformed
    /\ InitAddEventModal
    /\ InitFacultyCodeModal
    /\ InitRsvpButton
    /\ InitEventDetailsModal

\* ------------------------------------------------------------------- init
Init ==
    /\ dbEvents \in [{1} -> [max_attendees : Caps, is_public : {TRUE}]]
    /\ \E n \in 0..1 :      \* u1 may have RSVP'd to event 1 in an earlier session
          dbAttendees = [u \in Users |-> [e \in EventIds |->
                            IF u = "u1" /\ e = 1 THEN n ELSE 0]]
    /\ nextId = 2
    /\ feed = [t \in Tabs |-> <<>>]
    /\ mountPc = [t \in Tabs |-> "getUser"]
    /\ isLoading = [t \in Tabs |-> TRUE]
    /\ userId = [t \in Tabs |-> NoUser]
    /\ events = [t \in Tabs |-> <<>>]
    /\ userRsvps = [t \in Tabs |-> {}]
    /\ selectedEvent = [t \in Tabs |-> <<>>]
    /\ pending = [t \in Tabs |-> <<>>]
    /\ lastToast = [t \in Tabs |-> "none"]
    /\ redirected = [t \in Tabs |-> FALSE]
    /\ ops = 0
    /\ faults = 0
    /\ userRole = [t \in Tabs |-> "student"]
    /\ isAddEventModalOpen = [t \in Tabs |-> FALSE]
    /\ channels = [t \in Tabs |-> 1]
    /\ InitComponents

\* The initial state in which event 1 is unlimited and has no attendee: the
\* one the component specifications start from.
InitQuiet ==
    /\ Init
    /\ dbEvents[1].max_attendees = Null
    /\ dbAttendees["u1"][1] = 0

\* A request fails for a reason outside the program (network, store outage).
Fault == faults < MaxFaults /\ faults' = faults + 1

\* ------------------------------------------------- mount: fetchUserAndEvents
\* The users a tab's session may belong to.  Users are interchangeable, so
\* the first tab's user is called u1.
TabUsers(t) == IF t = "t1" THEN {"u1"} ELSE Users

\* profiles.role of each user: u1 is a faculty member, u2 a student.
ProfileRole(u) == IF u = "u1" THEN "faculty" ELSE "student"

\* await supabase.auth.getUser(), then await profiles.select("role, id"):
\* no session (redirect), a rejected promise (catch), no profile row, or the
\* profile.  Nothing else reads or writes what the two requests touch and no
\* handler is rendered while isLoading, so the two awaits are one step.
MountUser(t) ==
    /\ mountPc[t] = "getUser"
    /\ \/ \E u \in TabUsers(t) :
            /\ \/ /\ userRole' = [userRole EXCEPT ![t] = ProfileRole(u)]
                  /\ userId' = [userId EXCEPT ![t] = u]
                  /\ mountPc' = [mountPc EXCEPT ![t] = "fetch"]
                  /\ UNCHANGED <<isLoading, faults>>
               \/ /\ Fault                     \* profileError, or no profile
                  /\ mountPc' = [mountPc EXCEPT ![t] = "done"]
                  /\ isLoading' = [isLoading EXCEPT ![t] = FALSE]
                  /\ UNCHANGED <<userId, userRole>>
            /\ UNCHANGED <<lastToast, redirected>>
       \/ /\ redirected' = [redirected EXCEPT ![t] = TRUE]
          /\ mountPc' = [mountPc EXCEPT ![t] = "done"]
          /\ isLoading' = [isLoading EXCEPT ![t] = FALSE]
          /\ UNCHANGED <<userId, userRole, lastToast, faults>>
       \/ /\ Fault                             \* getUser rejects
          /\ lastToast' = [lastToast EXCEPT ![t] = "load_failed"]
          /\ mountPc' = [mountPc EXCEPT ![t] = "done"]
          /\ isLoading' = [isLoading EXCEPT ![t] = FALSE]
          /\ UNCHANGED <<userId, userRole, redirected>>
    /\ UNCHANGED <<storeVars, feed, viewVars, pending, ops>>
    /\ UNCHANGED <<isAddEventModalOpen, channels, compVars>>

\* await fetchPublicEvents(): setEvents(eventsData), or the catch block.
MountFetch(t) ==
    /\ mountPc[t] = "fetch"
    /\ \/ /\ events' = [events EXCEPT ![t] = FetchPublicEvents]
          /\ mountPc' = [mountPc EXCEPT ![t] = "rsvps"]
          /\ UNCHANGED <<isLoading, lastToast, faults>>
       \/ /\ Fault
          /\ lastToast' = [lastToast EXCEPT ![t] = "load_failed"]
          /\ mountPc' = [mountPc EXCEPT ![t] = "done"]
          /\ isLoading' = [isLoading EXCEPT ![t] = FALSE]
          /\ UNCHANGED events
    /\ UNCHANGED <<storeVars, feed, userId, userRsvps,
                   selectedEvent, pending, redirected, ops>>
    /\ UNCHANGED <<userRole, isAddEventModalOpen, channels, compVars>>

\* (mutant) the membership request without the finally block on its error
MountRsvpsNoFinally(t) ==
    /\ mountPc[t] = "rsvps"
    /\ \/ /\ userRsvps' = [userRsvps EXCEPT ![t] =
                             {e \in EventIds : dbAttendees[userId[t]][e] > 0}]
          /\ isLoading' = [isLoading EXCEPT ![t] = FALSE]
          /\ UNCHANGED faults
       \/ /\ Fault
          /\ UNCHANGED <<userRsvps, isLoading>>
    /\ mountPc' = [mountPc EXCEPT ![t] = "done"]
    /\ UNCHANGED <<storeVars, feed, userId, events, selectedEvent,
                   pending, lastToast, redirected, ops>>
    /\ UNCHANGED <<userRole, isAddEventModalOpen, channels, compVars>>

\* await event_attendees.select("event_id").eq("user_id", profile.id).
MountRsvps(t) ==
    /\ mountPc[t] = "rsvps"
    /\ \/ /\ userRsvps' = [userRsvps EXCEPT ![t] =
                             {e \in EventIds : dbAttendees[userId[t]][e] > 0}]
          /\ UNCHANGED faults
       \/ /\ Fault                             \* rsvpError
          /\ UNCHANGED userRsvps
    /\ mountPc' = [mountPc EXCEPT ![t] = "done"]
    /\ isLoading' = [isLoading EXCEPT ![t] = FALSE]
    /\ UNCHANGED <<storeVars, feed, userId, events, selectedEvent,
                   pending, lastToast, redirected, ops>>
    /\ UNCHANGED <<userRole, isAddEventModalOpen, channels, compVars>>

\* ------------------------------------------------------ in-flight handlers
\* One asynchronous handler instance suspended at an await.
Op(kind, ev, user, pc, err, n) ==
    [kind |-> kind, ev |-> ev, user |-> user, pc |-> pc, err |-> err, n |-> n]

RemoveAt(s, k) == [i \in 1..(Len(s) - 1) |-> IF i < k THEN s[i] ELSE s[i + 1]]

SetPc(t, k, pc, err, n) ==
    [pending EXCEPT ![t][k] = [@ EXCEPT !.pc = pc, !.err = err, !.n = n]]

Max0(x) == IF x > 0 THEN x ELSE 0

\* (mutant) a map that counts the new attendee on every entry
IncAttendeesAll(list, id) ==
    [i \in DOMAIN list |-> [list[i] EXCEPT !.attendees = @ + 1]]

\* prev.map(event => event.id === eventId ? {...event, attendees + 1} : event)
IncAttendees(list, id) ==
    [i \in DOMAIN list |->
        IF list[i].id = id THEN [list[i] EXCEPT !.attendees = @ + 1]
        ELSE list[i]]

\* prev.map(event => event.id === eventId
\*     ? {...event, attendees: Math.max(0, attendees - 1)} : event)
DecAttendees(list, id) ==
    [i \in DOMAIN list |->
        IF list[i].id = id THEN [list[i] EXCEPT !.attendees = Max0(@ - 1)]
        ELSE list[i]]

\* The two setEvents calls of the ADD RSVP flow, in source order.
RsvpSuccessEvents(list, id) == DecAttendees(IncAttendees(list, id), id)

\* hasUserRsvpd(eventId) == !!userRsvps[eventId]
HasUserRsvpd(t, id) == id \in userRsvps[t]

\* (mutant) the capacity check with > for >=
RsvpToEventCheckOffByOne(found, max, currentAttendees) ==
    IF ~found THEN "Event not found"
    ELSE IF max # Null /\ max # 0 /\ currentAttendees > max THEN "Event is full"
    ELSE "ok"

\* rsvpToEvent after its select: the Error it throws, or "ok".
RsvpToEventCheck(found, max, currentAttendees) ==
    IF ~found THEN "Event not found"
    ELSE IF max # Null /\ max # 0 /\ currentAttendees >= max THEN "Event is full"
    ELSE "ok"

\* (mutant) no special case for the unique violation
RsvpToEventInsertResultNoDuplicateCase(err) ==
    IF err # "none" THEN "Failed to RSVP to event" ELSE "ok"

\* rsvpToEvent after its insert: the Error it throws, or "ok".
RsvpToEventInsertResult(err) ==
    IF err = "23505" THEN "You have already RSVP'd to this event"
    ELSE IF err # "none" THEN "Failed to RSVP to event"
    ELSE "ok"

\* (mutant) cancelRsvp that treats "no row deleted" as a failure
CancelRsvpResultStrict(err, n) ==
    IF err # "none" \/ n = 0 THEN "PostgrestError" ELSE "ok"

\* cancelRsvp after its delete: it throws the store's error object, else true.
CancelRsvpResult(err, n) == IF err # "none" THEN "PostgrestError" ELSE "ok"

\* (mutant) a catch block that marks the user as attending on every error
CatchToggleAlwaysAttend(message) ==
    CASE message = "Event is full" -> [toast |-> "full", attend |-> TRUE]
      [] message = "Event not found" -> [toast |-> "notfound", attend |-> TRUE]
      [] message = "You have already RSVP'd to this event" ->
             [toast |-> "already", attend |-> TRUE]
      [] message = "PostgrestError" -> [toast |-> "failed_status", attend |-> TRUE]
      [] OTHER -> [toast |-> "failed", attend |-> TRUE]

\* The catch block of handleToggleRsvp: the notice and whether the
\* membership of the event is forced to true.
CatchToggle(message) ==
    CASE message = "Event is full" -> [toast |-> "full", attend |-> FALSE]
      [] message = "Event not found" -> [toast |-> "notfound", attend |-> FALSE]
      [] message = "You have already RSVP'd to this event" ->
             [toast |-> "already", attend |-> TRUE]
      [] message = "PostgrestError" -> [toast |-> "failed_status", attend |-> FALSE]
      [] OTHER -> [toast |-> "failed", attend |-> FALSE]

\* toast.error(...) as opposed to toast(...) and toast.success(...)
IsErrorToast(kind) ==
    kind \in {"full", "notfound", "failed", "failed_status", "login_rsvp",
              "invalid_id", "login_create", "create_failed", "load_failed"}

\* handleToggleRsvp reaches its catch block with `message`; op k ends.
Thrown(t, k, message) ==
    LET c == CatchToggle(message)
        ev == pending[t][k].ev
    IN /\ userRsvps' = [userRsvps EXCEPT ![t] =
                           IF c.attend THEN @ \cup {ev} ELSE @]
       /\ lastToast' = [lastToast EXCEPT ![t] = c.toast]
       /\ pending' = [pending EXCEPT ![t] = RemoveAt(@, k)]
       /\ UNCHANGED <<events, selectedEvent>>

\* (mutant) a table without the unique constraint on (user_id, event_id)
DbInsertAttendeeNoUnique(att, rows, u, e) ==
    IF e \notin rows THEN [att |-> att, err |-> "23503"]
    ELSE [att |-> [att EXCEPT ![u][e] = @ + 1], err |-> "none"]

\* The event_attendees insert at the store: the new table and the error
\* (23503: no such event row; 23505: the pair is already there).
DbInsertAttendee(att, rows, u, e) ==
    IF e \notin rows THEN [att |-> att, err |-> "23503"]
    ELSE IF att[u][e] > 0 THEN [att |-> att, err |-> "23505"]
    ELSE [att |-> [att EXCEPT ![u][e] = @ + 1], err |-> "none"]

\* The event_attendees delete at the store: the new table and the rows deleted.
DbDeleteAttendee(att, u, e) ==
    [att |-> [att EXCEPT ![u][e] = 0], n |-> att[u][e]]

\* ------------------------------------------------------- handleToggleRsvp
\* (mutant) handleToggleRsvp without its userId guard
HandleToggleRsvpNoGuard(t, eventId) ==
    /\ ~isLoading[t]
    /\ eventId # InvalidId
    /\ ops < MaxOps
    /\ Len(pending[t]) < MaxInFlight
    /\ ops' = ops + 1
    /\ pending' = [pending EXCEPT ![t] = Append(@,
          IF HasUserRsvpd(t, eventId)
          THEN Op("cancel", eventId, userId[t], "delete", "none", 0)
          ELSE Op("rsvp", eventId, userId[t], "select", "none", 0))]
    /\ UNCHANGED <<storeVars, feed, mountPc, isLoading, userId, viewVars,
                   lastToast, redirected, faults>>
    /\ UNCHANGED <<userRole, isAddEventModalOpen, channels, compVars>>

\* The synchronous part, up to the first await.
HandleToggleRsvp(t, eventId) ==
    /\ ~isLoading[t]
    /\ IF userId[t] = NoUser
       THEN /\ lastToast' = [lastToast EXCEPT ![t] = "login_rsvp"]
            /\ UNCHANGED <<pending, ops>>
       ELSE IF eventId = InvalidId
       THEN /\ lastToast' = [lastToast EXCEPT ![t] = "invalid_id"]
            /\ UNCHANGED <<pending, ops>>
       ELSE /\ ops < MaxOps
            /\ Len(pending[t]) < MaxInFlight
            /\ ops' = ops + 1
            /\ pending' = [pending EXCEPT ![t] = Append(@,
                  IF HasUserRsvpd(t, eventId)
                  THEN Op("cancel", eventId, userId[t], "delete", "none", 0)
                  ELSE Op("rsvp", eventId, userId[t], "select", "none", 0))]
            /\ UNCHANGED lastToast
    /\ UNCHANGED <<storeVars, feed, mountPc, isLoading, userId,
                   viewVars, redirected, faults>>
    /\ UNCHANGED <<userRole, isAddEventModalOpen, channels, compVars>>

\* rsvpToEvent: the select of max_attendees and the attendee rows, and the
\* code up to the insert request (or to the throw).
RsvpSelect(t, k) ==
    /\ k \in DOMAIN pending[t]
    /\ pending[t][k].pc = "select"
    /\ LET ev == pending[t][k].ev
       IN \E failed \in BOOLEAN :
            /\ IF failed THEN Fault ELSE UNCHANGED faults
            /\ LET found == ev \in DOMAIN dbEvents /\ ~failed
                   r == RsvpToEventCheck(found,
                           IF found THEN dbEvents[ev].max_attendees ELSE Null,
                           AttendeeCount(dbAttendees, ev))
               IN IF r = "ok"
                  THEN /\ pending' = SetPc(t, k, "insert", "none", 0)
                       /\ UNCHANGED <<viewVars, lastToast>>
                  ELSE Thrown(t, k, r)
    /\ UNCHANGED <<storeVars, feed, mountPc, isLoading, userId,
                   redirected, ops, faults>>
    /\ UNCHANGED <<userRole, isAddEventModalOpen, channels, compVars>>

\* The store executes the insert into event_attendees.
StoreInsert(t, k) ==
    /\ k \in DOMAIN pending[t]
    /\ pending[t][k].pc = "insert"
    /\ LET o == pending[t][k]
           r == DbInsertAttendee(dbAttendees, DOMAIN dbEvents, o.user, o.ev)
       IN \/ /\ dbAttendees' = r.att
             /\ pending' = SetPc(t, k, "insertResp", r.err, 0)
             /\ UNCHANGED faults
          \/ /\ Fault                          \* the request fails
             /\ UNCHANGED dbAttendees
             /\ pending' = SetPc(t, k, "insertResp", "fetch", 0)
    /\ UNCHANGED <<dbEvents, nextId, feed, mountPc, isLoading,
                   userId, viewVars, lastToast, redirected, ops>>
    /\ UNCHANGED <<userRole, isAddEventModalOpen, channels, compVars>>

\* The insert's response: rsvpToEvent returns or throws, and the ADD RSVP
\* flow of handleToggleRsvp continues.
InsertResponse(t, k) ==
    /\ k \in DOMAIN pending[t]
    /\ pending[t][k].pc = "insertResp"
    /\ LET o == pending[t][k]
           r == RsvpToEventInsertResult(o.err)
       IN IF r = "ok"
          THEN /\ events' = [events EXCEPT ![t] = RsvpSuccessEvents(@, o.ev)]
               /\ userRsvps' = [userRsvps EXCEPT ![t] = @ \cup {o.ev}]
               /\ lastToast' = [lastToast EXCEPT ![t] = "rsvp_ok"]
               /\ pending' = [pending EXCEPT ![t] = RemoveAt(@, k)]
               /\ UNCHANGED selectedEvent
          ELSE Thrown(t, k, r)
    /\ UNCHANGED <<storeVars, feed, mountPc, isLoading, userId,
                   redirected, ops, faults>>
    /\ UNCHANGED <<userRole, isAddEventModalOpen, channels, compVars>>

\* The store executes the delete of cancelRsvp.
StoreDelete(t, k) ==
    /\ k \in DOMAIN pending[t]
    /\ pending[t][k].pc = "delete"
    /\ LET o == pending[t][k]
           r == DbDeleteAttendee(dbAttendees, o.user, o.ev)
       IN \/ /\ dbAttendees' = r.att
             /\ pending' = SetPc(t, k, "deleteResp", "none", r.n)
             /\ UNCHANGED faults
          \/ /\ Fault                          \* the request fails
             /\ UNCHANGED dbAttendees
             /\ pending' = SetPc(t, k, "deleteResp", "fetch", 0)
    /\ UNCHANGED <<dbEvents, nextId, feed, mountPc, isLoading,
                   userId, viewVars, lastToast, redirected, ops>>
    /\ UNCHANGED <<userRole, isAddEventModalOpen, channels, compVars>>

\* The delete's response: cancelRsvp returns or throws, and the CANCEL RSVP
\* flow of handleToggleRsvp continues.
CancelResponse(t, k) ==
    /\ k \in DOMAIN pending[t]
    /\ pending[t][k].pc = "deleteResp"
    /\ LET o == pending[t][k]
           r == CancelRsvpResult(o.err, o.n)
       IN IF r = "ok"
          THEN /\ userRsvps' = [userRsvps EXCEPT ![t] = @ \ {o.ev}]
               /\ events' = [events EXCEPT ![t] = DecAttendees(@, o.ev)]
               /\ lastToast' = [lastToast EXCEPT ![t] = "cancel_ok"]
               /\ pending' = [pending EXCEPT ![t] = RemoveAt(@, k)]
               /\ UNCHANGED selectedEvent
          ELSE Thrown(t, k, r)
    /\ UNCHANGED <<storeVars, feed, mountPc, isLoading, userId,
                   redirected, ops, faults>>
    /\ UNCHANGED <<userRole, isAddEventModalOpen, channels, compVars>>

\* ------------------------------------------------- detail view (selection)
\* The ids of the entries the tab shows: the list and the open detail view.
ShownIds(t) ==
    {events[t][i].id : i \in DOMAIN events[t]}
        \cup {selectedEvent[t][i].id : i \in DOMAIN selectedEvent[t]}

\* "View Details" on entry i: setSelectedEvent(event).
SelectEvent(t, i) ==
    /\ ~isLoading[t]
    /\ i \in DOMAIN events[t]
    /\ selectedEvent[t] # <<events[t][i]>>
    /\ selectedEvent' = [selectedEvent EXCEPT ![t] = <<events[t][i]>>]
    /\ UNCHANGED <<storeVars, feed, mountPc, isLoading, userId,
                   events, userRsvps, pending, lastToast, redirected, ops,
                   faults>>
    /\ UNCHANGED <<userRole, isAddEventModalOpen, channels, compVars>>

\* EventDetailsModal onClose: setSelectedEvent(null).
CloseDetails(t) ==
    /\ ~isLoading[t]
    /\ selectedEvent[t] # <<>>
    /\ selectedEvent' = [selectedEvent EXCEPT ![t] = <<>>]
    /\ UNCHANGED <<storeVars, feed, mountPc, isLoading, userId,
                   events, userRsvps, pending, lastToast, redirected, ops,
                   faults>>
    /\ UNCHANGED <<userRole, isAddEventModalOpen, channels, compVars>>

\* An operand of >= as JavaScript converts it to a number: null is 0.
ToNumber(x) == IF x = Null THEN 0 ELSE x

\* EventDetailsModal.isAtCapacity.  Every entry carries maxAttendees (null
\* or a number, never undefined), so the first conjunct is true.
IsAtCapacity(event, isRsvpd) ==
    /\ TRUE
    /\ event.attendees >= ToNumber(event.maxAttendees)
    /\ ~isRsvpd

\* The props EventDetailsModal renders its RsvpButton with.
DetailsButtonProps(t) ==
    LET event == selectedEvent[t][1]
        isRsvpd == HasUserRsvpd(t, event.id)
    IN [eventId |-> event.id, count |-> event.attendees, isRsvpd |-> isRsvpd,
        disabled |-> IF IsAtCapacity(event, isRsvpd) THEN "true" ELSE "false"]

\* ----------------------------------------------------------- realtime feed
\* The store publishes a change of table events to every subscribed tab.
Publish(msg) ==
    [t \in Tabs |-> IF channels[t] > 0 THEN Append(feed[t], msg) ELSE feed[t]]

Payload(type, id, row) ==
    [type |-> type, id |-> id, max_attendees |-> row.max_attendees,
     is_public |-> row.is_public]

\* payload.old of a DELETE carries the id only.
OldRow == [max_attendees |-> Null, is_public |-> FALSE]

\* INSERT callback: setEvents(prev => [...prev, transformEventRecord(new)])
OnInsertEvents(list, row) == Append(list, TransformEventRecord(row))

\* (mutant) an UPDATE callback that appends the row when no entry has its id
OnUpdateEventsUpsert(list, row) ==
    IF \E i \in DOMAIN list : list[i].id = row.id
    THEN [i \in DOMAIN list |->
            IF list[i].id = row.id THEN TransformEventRecord(row) ELSE list[i]]
    ELSE Append(list, TransformEventRecord(row))

\* UPDATE callback: prev.map(e => e.id === new.id ? transform(new) : e)
OnUpdateEvents(list, row) ==
    [i \in DOMAIN list |->
        IF list[i].id = row.id THEN TransformEventRecord(row) ELSE list[i]]

\* (mutant) the filter with === for !==
OnDeleteEventsInverted(list, id) == SelectSeq(list, LAMBDA e : e.id = id)

\* DELETE callback: prev.filter(event => event.id !== payload.old.id)
OnDeleteEvents(list, id) == SelectSeq(list, LAMBDA e : e.id # id)

Deliver(t, type, newEvents, toast) ==
    /\ feed[t] # <<>>
    /\ Head(feed[t]).type = type
    /\ feed' = [feed EXCEPT ![t] = Tail(@)]
    /\ events' = [events EXCEPT ![t] = newEvents]
    /\ lastToast' = [lastToast EXCEPT ![t] = toast]
    /\ UNCHANGED <<storeVars, mountPc, isLoading, userId,
                   userRsvps, selectedEvent, pending, redirected, ops, faults>>
    /\ UNCHANGED <<userRole, isAddEventModalOpen, channels, compVars>>

OnInsert(t) ==
    Deliver(t, "INSERT", OnInsertEvents(events[t], Head(feed[t])), "new_event")

OnUpdate(t) ==
    Deliver(t, "UPDATE", OnUpdateEvents(events[t], Head(feed[t])), "updated")

OnDelete(t) ==
    Deliver(t, "DELETE", OnDeleteEvents(events[t], Head(feed[t]).id), "deleted")

\* ---------------------------------------------------------- handleAddEvent
CreatesInFlight ==
    Cardinality({p \in Tabs \X (1..MaxInFlight) :
        /\ p[2] \in DOMAIN pending[p[1]]
        /\ pending[p[1]][p[2]].pc = "create"})

\* (mutant) an Add Event button that is rendered for every role
OpenAddEventModalAnyRole(t) ==
    /\ ~isLoading[t]
    /\ ~isAddEventModalOpen[t]
    /\ isAddEventModalOpen' = [isAddEventModalOpen EXCEPT ![t] = TRUE]
    /\ UNCHANGED <<storeVars, feed, mountPc, isLoading, userId, viewVars,
                   pending, lastToast, redirected, ops, faults, userRole,
                   channels, compVars>>

\* The Add Event button, rendered only when userRole === "faculty".
OpenAddEventModal(t) ==
    /\ ~isLoading[t]
    /\ userRole[t] = "faculty"
    /\ ~isAddEventModalOpen[t]
    /\ isAddEventModalOpen' = [isAddEventModalOpen EXCEPT ![t] = TRUE]
    /\ UNCHANGED <<storeVars, feed, mountPc, isLoading, userId, viewVars,
                   pending, lastToast, redirected, ops, faults, userRole,
                   channels, compVars>>

\* AddEventModal onClose (X, Cancel, click outside).
CloseAddEventModal(t) ==
    /\ isAddEventModalOpen[t]
    /\ isAddEventModalOpen' = [isAddEventModalOpen EXCEPT ![t] = FALSE]
    /\ UNCHANGED <<storeVars, feed, mountPc, isLoading, userId, viewVars,
                   pending, lastToast, redirected, ops, faults, userRole,
                   channels, compVars>>

\* The modal's submit button is disabled while its onSubmit is in flight.
CreatePending(t) ==
    \E k \in DOMAIN pending[t] : pending[t][k].kind = "create"

\* onSubmit of the open AddEventModal.  The synchronous part: the userId
\* guard, then createEvent's insert request.  When the guard returns, onSubmit has
\* resolved and the modal's handleSubmit goes on: its success notice, then
\* onClose.
HandleAddEvent(t, eventData) ==
    /\ ~isLoading[t]
    /\ isAddEventModalOpen[t]
    /\ ~CreatePending(t)
    /\ IF userId[t] = NoUser
       THEN /\ lastToast' = [lastToast EXCEPT ![t] = "create_ok"]
            /\ isAddEventModalOpen' = [isAddEventModalOpen EXCEPT ![t] = FALSE]
            /\ UNCHANGED <<pending, ops>>
       ELSE /\ ops < MaxOps
            /\ Len(pending[t]) < MaxInFlight
            /\ nextId + CreatesInFlight <= NumEvents
            /\ ops' = ops + 1
            /\ pending' = [pending EXCEPT ![t] = Append(@,
                  Op("create", eventData, userId[t], "create", "none", 0))]
            /\ UNCHANGED <<lastToast, isAddEventModalOpen>>
    /\ UNCHANGED <<storeVars, feed, mountPc, isLoading, userId,
                   viewVars, redirected, faults>>
    /\ UNCHANGED <<userRole, channels, compVars>>

\* The form data createEvent reads: maxAttendees (0 when the field is left
\* empty) and the isPublic checkbox.
EventFormData == [maxAttendees : 0..MaxCap, isPublic : BOOLEAN]

\* createEvent's record: max_attendees: eventData.maxAttendees || null,
\* is_public: eventData.isPublic
EventRecord(eventData) ==
    [max_attendees |-> IF eventData.maxAttendees = 0 THEN Null
                       ELSE eventData.maxAttendees,
     is_public |-> eventData.isPublic]

\* The store executes the insert into events and publishes the new row.
StoreCreate(t, k) ==
    /\ k \in DOMAIN pending[t]
    /\ pending[t][k].pc = "create"
    /\ LET row == EventRecord(pending[t][k].ev)
       IN \/ /\ dbEvents' = (nextId :> row) @@ dbEvents
             /\ nextId' = nextId + 1
             /\ feed' = Publish(Payload("INSERT", nextId, row))
             /\ pending' = SetPc(t, k, "createResp", "none", 0)
             /\ UNCHANGED faults
          \/ /\ Fault                          \* the request fails
             /\ pending' = SetPc(t, k, "createResp", "fetch", 0)
             /\ UNCHANGED <<dbEvents, nextId, feed>>
    /\ UNCHANGED <<dbAttendees, mountPc, isLoading, userId,
                   viewVars, lastToast, redirected, ops>>
    /\ UNCHANGED <<userRole, isAddEventModalOpen, channels, compVars>>

\* The insert's response.  handleAddEvent issues its notice (success, or
\* "Unable to create event" in its catch block) and returns either way, so
\* the modal's onSubmit resolves: handleSubmit issues 'Event created
\* successfully!' and calls onClose.
CreateResponse(t, k) ==
    /\ k \in DOMAIN pending[t]
    /\ pending[t][k].pc = "createResp"
    /\ lastToast' = [lastToast EXCEPT ![t] = "create_ok"]
    /\ isAddEventModalOpen' = [isAddEventModalOpen EXCEPT ![t] = FALSE]
    /\ pending' = [pending EXCEPT ![t] = RemoveAt(@, k)]
    /\ UNCHANGED <<storeVars, feed, mountPc, isLoading, userId,
                   viewVars, redirected, ops, faults>>
    /\ UNCHANGED <<userRole, channels, compVars>>

\* ------------------------------------------- changes made outside the tabs
\* A row of table events is deleted (its attendee rows go with it).
EventDeleted(e) ==
    /\ ops < MaxOps
    /\ e \in DOMAIN dbEvents
    /\ ops' = ops + 1
    /\ dbEvents' = [x \in DOMAIN dbEvents \ {e} |-> dbEvents[x]]
    /\ dbAttendees' = [u \in Users |-> [dbAttendees[u] EXCEPT ![e] = 0]]
    /\ feed' = Publish(Payload("DELETE", e, OldRow))
    /\ UNCHANGED <<nextId, mountPc, isLoading, userId, viewVars,
                   pending, lastToast, redirected, faults>>
    /\ UNCHANGED <<userRole, isAddEventModalOpen, channels, compVars>>

\* Another client's createEvent inserts a row of table events.
EventCreated(eventData) ==
    /\ ops < MaxOps
    /\ nextId + CreatesInFlight <= NumEvents
    /\ ops' = ops + 1
    /\ dbEvents' = (nextId :> EventRecord(eventData)) @@ dbEvents
    /\ nextId' = nextId + 1
    /\ feed' = Publish(Payload("INSERT", nextId, EventRecord(eventData)))
    /\ UNCHANGED <<dbAttendees, mountPc, isLoading, userId, viewVars,
                   pending, lastToast, redirected, faults>>
    /\ UNCHANGED <<userRole, isAddEventModalOpen, channels, compVars>>

\* A row of table events is updated in a column other than max_attendees.
EventUpdated(e) ==
    /\ ops < MaxOps
    /\ e \in DOMAIN dbEvents
    /\ ops' = ops + 1
    /\ feed' = Publish(Payload("UPDATE", e, dbEvents[e]))
    /\ UNCHANGED <<storeVars, mountPc, isLoading, userId, viewVars,
                   pending, lastToast, redirected, faults>>
    /\ UNCHANGED <<userRole, isAddEventModalOpen, channels, compVars>>

\* ------------------------------------------------ mount and unmount
\* (mutant) a cleanup that does not call removeChannel
DashboardUnmountNoRemove(t) ==
    /\ mountPc[t] # "unmounted"
    /\ ops < MaxOps
    /\ ops' = ops + 1
    /\ mountPc' = [mountPc EXCEPT ![t] = "unmounted"]
    /\ isLoading' = [isLoading EXCEPT ![t] = TRUE]
    /\ userId' = [userId EXCEPT ![t] = NoUser]
    /\ userRole' = [userRole EXCEPT ![t] = "student"]
    /\ events' = [events EXCEPT ![t] = <<>>]
    /\ userRsvps' = [userRsvps EXCEPT ![t] = {}]
    /\ selectedEvent' = [selectedEvent EXCEPT ![t] = <<>>]
    /\ isAddEventModalOpen' = [isAddEventModalOpen EXCEPT ![t] = FALSE]
    /\ UNCHANGED <<storeVars, feed, channels, pending, lastToast, redirected,
                   faults, compVars>>

\* The Dashboard is unmounted: the effect's cleanup calls
\* supabase.removeChannel(eventsNotification), and React discards the
\* component's state (the next mount starts from the useState defaults).
DashboardUnmount(t) ==
    /\ mountPc[t] # "unmounted"
    /\ ops < MaxOps
    /\ ops' = ops + 1
    /\ channels' = [channels EXCEPT ![t] = @ - 1]
    /\ feed' = [feed EXCEPT ![t] = <<>>]
    /\ mountPc' = [mountPc EXCEPT ![t] = "unmounted"]
    /\ isLoading' = [isLoading EXCEPT ![t] = TRUE]
    /\ userId' = [userId EXCEPT ![t] = NoUser]
    /\ userRole' = [userRole EXCEPT ![t] = "student"]
    /\ events' = [events EXCEPT ![t] = <<>>]
    /\ userRsvps' = [userRsvps EXCEPT ![t] = {}]
    /\ selectedEvent' = [selectedEvent EXCEPT ![t] = <<>>]
    /\ isAddEventModalOpen' = [isAddEventModalOpen EXCEPT ![t] = FALSE]
    /\ UNCHANGED <<storeVars, pending, lastToast, redirected, faults,
                   compVars>>

\* The Dashboard is mounted again: the effect starts fetchUserAndEvents and
\* subscribes a new channel "public:events".
DashboardMount(t) ==
    /\ mountPc[t] = "unmounted"
    /\ mountPc' = [mountPc EXCEPT ![t] = "getUser"]
    /\ channels' = [channels EXCEPT ![t] = @ + 1]
    /\ UNCHANGED <<storeVars, feed, isLoading, userId, viewVars, pending,
                   lastToast, redirected, ops, faults, userRole,
                   isAddEventModalOpen, compVars>>

\* ----------------------------------------------------------- AddEventModal
\* The texts a user types into the form.
Titles == {<<>>, <<"T">>}
Names == {<<>>, <<"N">>}
Emails == {<<>>, <<" ">>,
           <<"a", "@", "b", ".", "c">>,         \* a@b.c
           <<"a", "@", "b">>,                   \* a@b
           <<"a", " ", "@", "b", ".", "c">>}    \* "a @b.c"
FoodNames == {<<>>, <<"F">>}
Times == 0..MaxTime

\* The values each form field can be set to.
FieldValues ==
    [title |-> Titles, startDateTime |-> Times, endDateTime |-> Times,
     organizerName |-> Names, organizerEmail |-> Emails,
     foodName |-> FoodNames]

\* String.prototype.trim()
RECURSIVE Trim(_)
Trim(s) ==
    IF s = <<>> THEN s
    ELSE IF Head(s) = " " THEN Trim(Tail(s))
    ELSE IF s[Len(s)] = " " THEN Trim(SubSeq(s, 1, Len(s) - 1))
    ELSE s

\* /^[^\s@]+@[^\s@]+\.[^\s@]+$/.test(s): an "@" at i after at least one
\* character, a "." at j with at least one character between them and at
\* least one after it, and no blank and no other "@" anywhere.
EmailPattern(s) ==
    \E i, j \in 1..Len(s) :
        /\ s[i] = "@"
        /\ s[j] = "."
        /\ 1 < i
        /\ i + 1 < j
        /\ j < Len(s)
        /\ \A n \in 1..Len(s) : n # i => s[n] \notin {"@", " "}

\* (mutant) validateForm without the check of the e-mail pattern
ValidateFormNoPattern(f) ==
    {e \in {<<"title", "Event title is required">>,
            <<"endDateTime", "End time must be after start time">>,
            <<"organizerName", "Organizer name is required">>,
            <<"organizerEmail", "Organizer email is required">>,
            <<"foodOfferings", "Food item name is required">>} :
        \/ e[1] = "title" /\ Trim(f.title) = <<>>
        \/ e[1] = "endDateTime" /\ f.endDateTime < f.startDateTime
        \/ e[1] = "organizerName" /\ Trim(f.organizerName) = <<>>
        \/ e[1] = "organizerEmail" /\ Trim(f.organizerEmail) = <<>>
        \/ e[1] = "foodOfferings" /\ Trim(f.foodName) = <<>>}

\* validateForm: the errors it passes to setErrors (field, message).
ValidateForm(f) ==
    {e \in {<<"title", "Event title is required">>,
            <<"endDateTime", "End time must be after start time">>,
            <<"organizerName", "Organizer name is required">>,
            <<"organizerEmail", "Organizer email is required">>,
            <<"organizerEmail", "Invalid email format">>,
            <<"foodOfferings", "Food item name is required">>} :
        \/ e[1] = "title" /\ Trim(f.title) = <<>>
        \/ e[1] = "endDateTime" /\ f.endDateTime < f.startDateTime
        \/ e[1] = "organizerName" /\ Trim(f.organizerName) = <<>>
        \/ /\ e[2] = "Organizer email is required"
           /\ Trim(f.organizerEmail) = <<>>
        \/ /\ e[2] = "Invalid email format"
           /\ Trim(f.organizerEmail) # <<>>
           /\ ~EmailPattern(f.organizerEmail)
        \/ e[1] = "foodOfferings" /\ Trim(f.foodName) = <<>>}

\* The user changes one field of the open form.
ChangeField(field, value) ==
    /\ addEventModal.isOpen
    /\ addEventModal.formData[field] # value
    /\ addEventModal' = [addEventModal EXCEPT !.formData[field] = value]
    /\ UNCHANGED <<dashVars, transformed, facultyCodeModal, rsvpButton, eventDetailsModal>>

\* handleSubmit up to its await: validateForm, and for a valid form
\* setIsSubmitting(true) and the call of onSubmit(formData).  The submit
\* button is disabled while isSubmitting.
HandleSubmit ==
    /\ addEventModal.isOpen
    /\ ~addEventModal.isSubmitting
    /\ LET newErrors == ValidateForm(addEventModal.formData)
       IN IF newErrors = {}
          THEN /\ Len(addEventModal.onSubmitCalls) < MaxCalls
               /\ addEventModal' =
                     [addEventModal EXCEPT
                        !.errors = newErrors,
                        !.isSubmitting = TRUE,
                        !.submitPc = "awaiting",
                        !.onSubmitCalls = Append(@, addEventModal.formData)]
          ELSE addEventModal' = [addEventModal EXCEPT !.errors = newErrors]
    /\ UNCHANGED <<dashVars, transformed, facultyCodeModal, rsvpButton, eventDetailsModal>>

\* The promise that onSubmit returned is fulfilled or rejected.
OnSubmitSettles(outcome) ==
    /\ addEventModal.submitPc = "awaiting"
    /\ addEventModal' = [addEventModal EXCEPT !.submitPc = outcome]
    /\ UNCHANGED <<dashVars, transformed, facultyCodeModal, rsvpButton, eventDetailsModal>>

\* (mutant) a handleSubmit that calls onClose in its catch block as well
SubmitContinuesAlwaysCloses ==
    /\ addEventModal.submitPc \in {"resolved", "rejected"}
    /\ addEventModal' =
          IF addEventModal.submitPc = "resolved"
          THEN [addEventModal EXCEPT
                  !.formData = EmptyForm,
                  !.onCloseCalls = @ + 1,
                  !.isOpen = FALSE,
                  !.isSubmitting = FALSE,
                  !.submitPc = "idle"]
          ELSE [addEventModal EXCEPT
                  !.errors = {e \in @ : e[1] # "general"}
                                \cup {<<"general", "An unexpected error occurred">>},
                  !.onCloseCalls = @ + 1,
                  !.isOpen = FALSE,
                  !.isSubmitting = FALSE,
                  !.submitPc = "idle"]
    /\ UNCHANGED <<dashVars, transformed, facultyCodeModal, rsvpButton, eventDetailsModal>>

\* handleSubmit after its await.  Fulfilled: the form is reset and onClose is
\* called (the parent's onClose sets isOpen to false).  Rejected: the catch
\* block sets errors.general.  Either way the finally block clears
\* isSubmitting.
SubmitContinues ==
    /\ addEventModal.submitPc \in {"resolved", "rejected"}
    /\ addEventModal' =
          IF addEventModal.submitPc = "resolved"
          THEN [addEventModal EXCEPT
                  !.formData = EmptyForm,
                  !.onCloseCalls = @ + 1,
                  !.isOpen = FALSE,
                  !.isSubmitting = FALSE,
                  !.submitPc = "idle"]
          ELSE [addEventModal EXCEPT
                  !.errors = {e \in @ : e[1] # "general"}
                                \cup {<<"general", "An unexpected error occurred">>},
                  !.isSubmitting = FALSE,
                  !.submitPc = "idle"]
    /\ UNCHANGED <<dashVars, transformed, facultyCodeModal, rsvpButton, eventDetailsModal>>

\* The X button, or a click outside the dialog: onClose.
CloseForm ==
    /\ addEventModal.isOpen
    /\ addEventModal.onCloseCalls < MaxCalls
    /\ addEventModal' = [addEventModal EXCEPT
                            !.onCloseCalls = @ + 1, !.isOpen = FALSE]
    /\ UNCHANGED <<dashVars, transformed, facultyCodeModal, rsvpButton, eventDetailsModal>>

\* The parent renders the modal with isOpen = true.
OpenForm ==
    /\ ~addEventModal.isOpen
    /\ addEventModal' = [addEventModal EXCEPT !.isOpen = TRUE]
    /\ UNCHANGED <<dashVars, transformed, facultyCodeModal, rsvpButton, eventDetailsModal>>

\* -------------------------------------------------------- FacultyCodeModal
VALID_FACULTY_CODE == "123"

\* The codes a user types.
Codes == {"", "123", "999", "12", "1234", " 123"}

\* The parent's Add Event button: setIsFacultyCodeModalOpen(true).
OpenCodeModal ==
    /\ ~facultyCodeModal.isOpen
    /\ facultyCodeModal' = [facultyCodeModal EXCEPT !.isOpen = TRUE]
    /\ UNCHANGED <<dashVars, transformed, addEventModal, rsvpButton, eventDetailsModal>>

\* The input's onChange: setFacultyCode(e.target.value).
TypeCode(code) ==
    /\ facultyCodeModal.isOpen
    /\ facultyCodeModal.facultyCode # code
    /\ facultyCodeModal' = [facultyCodeModal EXCEPT !.facultyCode = code]
    /\ UNCHANGED <<dashVars, transformed, addEventModal, rsvpButton, eventDetailsModal>>

\* handleSubmit up to its await of the 500 ms timer; the handler keeps the
\* facultyCode of the render it was created in.  The submit button is
\* disabled while isSubmitting.
HandleCodeSubmit ==
    /\ facultyCodeModal.isOpen
    /\ ~facultyCodeModal.isSubmitting
    /\ facultyCodeModal.facultyCode = VALID_FACULTY_CODE
          => facultyCodeModal.onSuccessCalls < MaxCalls
    /\ facultyCodeModal' =
          [facultyCodeModal EXCEPT
             !.error = "null",
             !.isSubmitting = TRUE,
             !.timers = Append(@, facultyCodeModal.facultyCode)]
    /\ UNCHANGED <<dashVars, transformed, addEventModal, rsvpButton, eventDetailsModal>>

\* (mutant) a handleSubmit that accepts every code that is not empty
TimerFiresAnyCode ==
    /\ facultyCodeModal.timers # <<>>
    /\ facultyCodeModal' =
          IF Head(facultyCodeModal.timers) # ""
          THEN [facultyCodeModal EXCEPT
                  !.timers = Tail(@),
                  !.isSubmitting = FALSE,
                  !.onSuccessCalls = @ + 1,
                  !.isOpen = FALSE]
          ELSE [facultyCodeModal EXCEPT
                  !.timers = Tail(@),
                  !.isSubmitting = FALSE,
                  !.error = "Invalid code. Please try again."]
    /\ UNCHANGED <<dashVars, transformed, addEventModal, rsvpButton, eventDetailsModal>>

\* handleSubmit after the timer.  The valid code: onSuccess(), and the
\* parent's handleFacultyCodeSuccess sets isOpen to false and opens the
\* add-event modal.  Any other code: the error message.
TimerFires ==
    /\ facultyCodeModal.timers # <<>>
    /\ IF Head(facultyCodeModal.timers) = VALID_FACULTY_CODE
       THEN /\ facultyCodeModal' =
                  [facultyCodeModal EXCEPT
                     !.timers = Tail(@),
                     !.isSubmitting = FALSE,
                     !.onSuccessCalls = @ + 1,
                     !.isOpen = FALSE]
            /\ addEventModal' = [addEventModal EXCEPT !.isOpen = TRUE]
       ELSE /\ facultyCodeModal' =
                  [facultyCodeModal EXCEPT
                     !.timers = Tail(@),
                     !.isSubmitting = FALSE,
                     !.error = "Invalid code. Please try again."]
            /\ UNCHANGED addEventModal
    /\ UNCHANGED <<dashVars, transformed, rsvpButton, eventDetailsModal>>

\* handleClose (Cancel, X, click outside): the code and the error are
\* reset, then onClose(), by which the parent sets isOpen to false.
HandleClose ==
    /\ facultyCodeModal.isOpen
    /\ facultyCodeModal' =
          [facultyCodeModal EXCEPT
             !.facultyCode = "", !.error = "null", !.isOpen = FALSE]
    /\ UNCHANGED <<dashVars, transformed, addEventModal, rsvpButton, eventDetailsModal>>

\* -------------------------------------------------------------- RsvpButton
\* The props a parent can render the button with; disabled may be left out.
ButtonProps ==
    [eventId : EventIds, count : 0..MaxCap, isRsvpd : BOOLEAN,
     disabled : {"undefined", "true", "false"}]

\* (mutant) a button whose disabled prop defaults to true
DisabledByDefault(props) ==
    IF props.disabled = "undefined" THEN TRUE ELSE props.disabled = "true"

\* The button's disabled attribute: the prop, with its default false.
Disabled(props) ==
    IF props.disabled = "undefined" THEN FALSE ELSE props.disabled = "true"

\* {disabled && !isRsvpd && <p>This event has reached maximum capacity</p>}
ShowsCapacityMessage(props) == Disabled(props) /\ ~props.isRsvpd

\* The parent renders the button with other props.
Render(props) ==
    /\ rsvpButton.props # props
    /\ rsvpButton' = [rsvpButton EXCEPT !.props = props]
    /\ UNCHANGED <<dashVars, transformed, addEventModal, facultyCodeModal, eventDetailsModal>>

\* A click on the button: onClick={() => onToggle(eventId)}, which a
\* disabled button does not receive.
ClickRsvp ==
    /\ Len(rsvpButton.onToggleCalls) <= MaxCalls
    /\ rsvpButton' =
          IF Disabled(rsvpButton.props)
          THEN rsvpButton
          ELSE [rsvpButton EXCEPT
                  !.onToggleCalls = Append(@, rsvpButton.props.eventId)]
    /\ UNCHANGED <<dashVars, transformed, addEventModal, facultyCodeModal, eventDetailsModal>>

\* ------------------------------------------------------- EventDetailsModal
\* profiles.email of each user.
ProfileEmail(u) == IF u = "u1" THEN "u1@bu.edu" ELSE "u2@bu.edu"

\* The entries of the events list that can be shown: event 1 is organized by
\* u1, event 2 by u2 (transformEvents takes the e-mail from the joined
\* profile); an entry that arrived by a realtime message has no organizer
\* e-mail (transformEventRecord).
DetailEvents ==
    {[id |-> 1, organizerEmail |-> ProfileEmail("u1")],
     [id |-> 2, organizerEmail |-> ProfileEmail("u2")],
     [id |-> 1, organizerEmail |-> ""]}

\* The user signs in before the dashboard shows any event.
SignIn(u) ==
    /\ eventDetailsModal.user = NoUser
    /\ eventDetailsModal.event = <<>>
    /\ eventDetailsModal' = [eventDetailsModal EXCEPT !.user = u]
    /\ UNCHANGED <<dashVars, transformed, addEventModal, facultyCodeModal, rsvpButton>>

\* "View Details" (or a marker click): setSelectedEvent(event);
\* setIsEventDetailsModalOpen(true).  The modal is mounted if no event was
\* selected, otherwise the mounted one gets the new props and keeps its
\* state.  isOpen has become true, so the effect starts checkAuthorization,
\* which keeps the organizerEmail of this render.
ViewDetails(event) ==
    /\ ~eventDetailsModal.isOpen
    /\ Len(eventDetailsModal.checks) < MaxInFlight
    /\ eventDetailsModal' =
          [eventDetailsModal EXCEPT
             !.event = <<event>>,
             !.isOpen = TRUE,
             !.isLoading = TRUE,
             !.checks = Append(@, event.organizerEmail)]
    /\ UNCHANGED <<dashVars, transformed, addEventModal, facultyCodeModal, rsvpButton>>

\* The result of checkAuthorization for the signed-in user.
CheckAuthorization(user, failed, organizerEmail) ==
    /\ user # NoUser
    /\ ~failed
    /\ ProfileRole(user) = "faculty"
    /\ ProfileEmail(user) = organizerEmail

\* One checkAuthorization in flight gets its answers (getUser, then the
\* profile; either may fail): setIsAuthorized, and setIsLoading(false) in
\* the finally block.
AuthorizationChecked(k, failed) ==
    /\ k \in DOMAIN eventDetailsModal.checks
    /\ eventDetailsModal' =
          [eventDetailsModal EXCEPT
             !.isAuthorized = CheckAuthorization(eventDetailsModal.user,
                                 failed, eventDetailsModal.checks[k]),
             !.isLoading = FALSE,
             !.checks = RemoveAt(@, k)]
    /\ UNCHANGED <<dashVars, transformed, addEventModal, facultyCodeModal, rsvpButton>>

\* handleEditClick: the error notice, or onEditEvent(event), which is the
\* Dashboard's handleEditEvent: a notice and
\* setIsEventDetailsModalOpen(false); the event stays selected.
HandleEditClick ==
    /\ eventDetailsModal.isOpen
    /\ IF ~eventDetailsModal.isAuthorized
       THEN eventDetailsModal' =
               [eventDetailsModal EXCEPT !.toast = "only_organizer"]
       ELSE /\ Len(eventDetailsModal.onEditCalls) <= MaxCalls
            /\ eventDetailsModal' =
                  [eventDetailsModal EXCEPT
                     !.onEditCalls = Append(@, eventDetailsModal.event[1].id),
                     !.toast = "editing",
                     !.isOpen = FALSE]
    /\ UNCHANGED <<dashVars, transformed, addEventModal, facultyCodeModal, rsvpButton>>

\* onClose: setIsEventDetailsModalOpen(false); setSelectedEvent(null).  The
\* modal is unmounted; the answers of its checks in flight go nowhere.
OnCloseDetails ==
    /\ eventDetailsModal.isOpen
    /\ eventDetailsModal' =
          [eventDetailsModal EXCEPT
             !.event = <<>>,
             !.isOpen = FALSE,
             !.isAuthorized = FALSE,
             !.isLoading = TRUE,
             !.checks = <<>>]
    /\ UNCHANGED <<dashVars, transformed, addEventModal, facultyCodeModal, rsvpButton>>

\* ------------------------------------------ transformEvents: coordinates
\* The characters a location_coordinates value is made of.
CoordChars == {"(", ")", ",", " ", "-", "1"}

\* location_coordinates of a row: null, or a text of up to MaxText characters.
CoordValues ==
    {[isNull |-> TRUE, text |-> <<>>]}
        \cup {[isNull |-> FALSE, text |-> x] :
                 x \in UNION {[1..n -> CoordChars] : n \in 0..MaxText}}

\* JavaScript values: a number (in ten-thousandths of a degree), NaN, undefined.
Num(v) == [type |-> "number", val |-> v]
NaN == [type |-> "NaN", val |-> 0]
Undefined == [type |-> "undefined", val |-> 0]
Degrees(n) == n * 10000

\* let coords = [-71.1097, 42.3505]
DefaultCoords == <<Num(0 - 711097), Num(423505)>>

\* coordString.replace(/[()]/g, '')
RemoveParens(s) == SelectSeq(s, LAMBDA c : c \notin {"(", ")"})

\* s.split(','): the pieces between the commas.
RECURSIVE Split(_)
Split(s) ==
    IF \A i \in DOMAIN s : s[i] # ","
    THEN <<s>>
    ELSE LET k == CHOOSE i \in DOMAIN s :
                     s[i] = "," /\ \A j \in 1..(i - 1) : s[j] # ","
         IN <<SubSeq(s, 1, k - 1)>> \o Split(SubSeq(s, k + 1, Len(s)))

\* White space is trimmed by Number() as by trim().
RECURSIVE TrimSpaces(_)
TrimSpaces(s) ==
    IF s = <<>> THEN s
    ELSE IF Head(s) = " " THEN TrimSpaces(Tail(s))
    ELSE IF s[Len(s)] = " " THEN TrimSpaces(SubSeq(s, 1, Len(s) - 1))
    ELSE s

\* The value of a text of digits.
RECURSIVE DigitsValue(_)
DigitsValue(s) ==
    IF s = <<>> THEN 0
    ELSE 10 * DigitsValue(SubSeq(s, 1, Len(s) - 1)) + 1

IsDigits(s) == s # <<>> /\ \A i \in DOMAIN s : s[i] = "1"

\* Number(text): 0 for the empty text, the value of a numeric literal, else NaN.
JsNumber(text) ==
    LET s == TrimSpaces(text)
    IN IF s = <<>> THEN Num(0)
       ELSE IF IsDigits(s) THEN Num(Degrees(DigitsValue(s)))
       ELSE IF Head(s) = "-" /\ IsDigits(Tail(s))
            THEN Num(0 - Degrees(DigitsValue(Tail(s))))
       ELSE NaN

\* The coords of transformEvents and of transformEventRecord: the default,
\* or, for a truthy location_coordinates, the first two pieces as numbers
\* (the destructuring leaves a missing piece undefined).
ParseCoords(loc) ==
    IF loc.isNull \/ loc.text = <<>>
    THEN DefaultCoords
    ELSE LET pieces == Split(RemoveParens(loc.text))
             numbers == [i \in DOMAIN pieces |-> JsNumber(pieces[i])]
         IN <<numbers[1],
              IF Len(numbers) >= 2 THEN numbers[2] ELSE Undefined>>

\* The store delivers a row.
ReceiveRecord(loc) ==
    /\ transformed.pc = "idle"
    /\ transformed' = [pc |-> "received", location_coordinates |-> <<loc>>,
                       coords |-> <<>>]
    /\ UNCHANGED <<dashVars, addEventModal, facultyCodeModal, rsvpButton,
                   eventDetailsModal>>

\* The row is transformed.
TransformRecord ==
    /\ transformed.pc = "received"
    /\ transformed' =
          [transformed EXCEPT
             !.pc = "done",
             !.coords = ParseCoords(transformed.location_coordinates[1])]
    /\ UNCHANGED <<dashVars, addEventModal, facultyCodeModal, rsvpButton,
                   eventDetailsModal>>

\* ---------------------------------------------------------- specifications
Mount(t) == MountUser(t) \/ MountFetch(t) \/ MountRsvps(t)

ToggleRsvp(t) ==
    \/ \E id \in ShownIds(t) \cup {InvalidId} : HandleToggleRsvp(t, id)
    \/ \E k \in 1..MaxInFlight :
          \/ RsvpSelect(t, k)
          \/ StoreInsert(t, k)
          \/ InsertResponse(t, k)
          \/ StoreDelete(t, k)
          \/ CancelResponse(t, k)

AddEvent(t) ==
    \/ OpenAddEventModal(t)
    \/ CloseAddEventModal(t)
    \/ \E eventData \in EventFormData : HandleAddEvent(t, eventData)
    \/ \E k \in 1..MaxInFlight : StoreCreate(t, k) \/ CreateResponse(t, k)

Realtime(t) == OnInsert(t) \/ OnUpdate(t) \/ OnDelete(t)

\* Two tabs (of one user or of two) that RSVP and cancel; table events and
\* the detail view are left alone.
NextRsvp == \E t \in Tabs : Mount(t) \/ ToggleRsvp(t)

SpecRsvp == Init /\ [][NextRsvp]_vars

\* One tab with all its handlers and callbacks, and the changes of table
\* events made outside it.
Next ==
    \/ Mount("t1")
    \/ ToggleRsvp("t1")
    \/ Realtime("t1")
    \/ \E i \in 1..(NumEvents + MaxOps) : SelectEvent("t1", i)
    \/ CloseDetails("t1")
    \/ \E e \in EventIds : EventDeleted(e) \/ EventUpdated(e)
    \/ \E eventData \in EventFormData : EventCreated(eventData)

Spec == Init /\ [][Next]_vars

\* One tab, of a faculty member or of a student, that creates events.
NextCreate ==
    \/ Mount("t2")
    \/ AddEvent("t2")
    \/ Realtime("t2")
    \/ \E e \in EventIds : EventDeleted(e) \/ EventUpdated(e)

SpecCreate == Init /\ [][NextCreate]_vars

\* Two tabs that are closed and opened again while rows of table events
\* are updated.
NextLife ==
    \/ \E t \in Tabs :
          Mount(t) \/ OnUpdate(t) \/ DashboardUnmount(t) \/ DashboardMount(t)
    \/ \E e \in EventIds : EventUpdated(e)

SpecLife == Init /\ [][NextLife]_vars

\* One AddEventModal, its user and its parent.
NextForm ==
    \/ \E field \in DOMAIN FieldValues :
          \E value \in FieldValues[field] : ChangeField(field, value)
    \/ HandleSubmit
    \/ \E outcome \in {"resolved", "rejected"} : OnSubmitSettles(outcome)
    \/ SubmitContinues
    \/ CloseForm
    \/ OpenForm

SpecForm == InitQuiet /\ [][NextForm]_vars

\* One FacultyCodeModal, its user and its parent, which opens the add-event
\* modal after a successful verification.
NextCode ==
    \/ OpenCodeModal
    \/ \E code \in Codes : TypeCode(code)
    \/ HandleCodeSubmit
    \/ TimerFires
    \/ HandleClose
    \/ CloseForm

SpecCode == InitQuiet /\ [][NextCode]_vars

\* One RsvpButton, its user and its parent.
NextButton ==
    \/ \E props \in ButtonProps : Render(props)
    \/ ClickRsvp

SpecButton == InitQuiet /\ [][NextButton]_vars

\* One Dashboard's EventDetailsModal and its user.
NextDetails ==
    \/ \E u \in Users : SignIn(u)
    \/ \E event \in DetailEvents : ViewDetails(event)
    \/ \E k \in 1..MaxInFlight : \E failed \in BOOLEAN :
          AuthorizationChecked(k, failed)
    \/ HandleEditClick
    \/ OnCloseDetails

SpecDetails == InitQuiet /\ [][NextDetails]_vars

\* Rows of table events and their transform.
NextTransform ==
    \/ transformed.pc = "idle" /\ \E loc \in CoordValues : ReceiveRecord(loc)
    \/ TransformRecord

SpecTransform == InitQuiet /\ [][NextTransform]_vars

\* ------------------------------------------------------------------ claims
\* Handler k of tab t ends in this step / moves to its next await.
Ends(t, k) == pending'[t] = RemoveAt(pending[t], k)
Moves(t, k) ==
    /\ Len(pending'[t]) = Len(pending[t])
    /\ pending'[t][k] # pending[t][k]
Acts(t, k) == k \in DOMAIN pending[t] /\ (Ends(t, k) \/ Moves(t, k))

Slots == 1..MaxInFlight

\* The store holds at least max_attendees rows for event e, and max is set.
EventFull(e) ==
    /\ e \in DOMAIN dbEvents
    /\ dbEvents[e].max_attendees # Null
    /\ AttendeeCount(dbAttendees, e) >= dbEvents[e].max_attendees

\* The entries of tab t's list with id e.
Entries(t, e) == SelectSeq(events[t], LAMBDA x : x.id = e)
EntriesAfter(t, e) == SelectSeq(events'[t], LAMBDA x : x.id = e)

\* C1: when rsvpToEvent reads a set capacity and an attendee count >= that
\* capacity, the toggle of a user who is not attending ends with the notice
\* for "Event is full", inserts no attendance row, and leaves the tab's
\* events list (so the attendee counts) and its membership map unchanged.
C1_FullEventRejected ==
    [][\A t \in Tabs, k \in Slots :
          (/\ Acts(t, k)
           /\ pending[t][k].pc = "select"
           /\ EventFull(pending[t][k].ev)
           /\ faults' = faults)
          => /\ Ends(t, k)
             /\ lastToast'[t] = "full"
             /\ dbAttendees' = dbAttendees
             /\ events'[t] = events[t]
             /\ userRsvps'[t] = userRsvps[t]]_vars

\* C1 witness: a tab whose user holds no row for a full event, and is not
\* marked attending, has just been told that the event is full.
C1_Witness ==
    \E t \in Tabs, e \in EventIds :
        /\ lastToast[t] = "full"
        /\ userId[t] # NoUser
        /\ EventFull(e)
        /\ e \notin userRsvps[t]
        /\ dbAttendees[userId[t]][e] = 0
        /\ Len(Entries(t, e)) = 1

C3_Claim ==
    [][/\ \A t \in Tabs, k \in Slots :
            (/\ Acts(t, k)
             /\ pending[t][k].pc = "deleteResp"
             /\ pending[t][k].err = "none"
             /\ lastToast[t] = "rsvp_ok"
             /\ Len(Entries(t, pending[t][k].ev)) = 1)
            => LET ev == pending[t][k].ev
               IN /\ ev \notin userRsvps'[t]
                  /\ EntriesAfter(t, ev)[1].attendees
                        = Entries(t, ev)[1].attendees - 1
       /\ \A t \in Tabs : \A i \in DOMAIN events'[t] :
            events'[t][i].attendees >= 0]_vars

\* C4: when the store rejects the insert with 23505, the toggle ends with
\* the user marked as attending, the events list (the displayed counts)
\* unchanged, and the neutral "already on the attendee list" notice.
C4_DuplicateIsAttending ==
    [][\A t \in Tabs, k \in Slots :
          (/\ Acts(t, k)
           /\ pending[t][k].pc = "insertResp"
           /\ pending[t][k].err = "23505")
          => /\ Ends(t, k)
             /\ userRsvps'[t] = userRsvps[t] \cup {pending[t][k].ev}
             /\ events'[t] = events[t]
             /\ lastToast'[t] = "already"
             /\ ~IsErrorToast(lastToast'[t])
             /\ UNCHANGED storeVars]_vars

\* C4 witness: a tab that was not marked attending got the duplicate notice
\* and is now marked attending, with the store holding the user's row.
C4_Witness ==
    \E t \in Tabs, e \in EventIds :
        /\ lastToast[t] = "already"
        /\ e \in userRsvps[t]
        /\ dbAttendees[userId[t]][e] = 1
        /\ pending[t] = <<>>

\* C5 (as claimed): the store never holds more attendance rows for an event
\* than its capacity.
C5_Claim ==
    \A e \in DOMAIN dbEvents :
        dbEvents[e].max_attendees # Null
            => AttendeeCount(dbAttendees, e) <= dbEvents[e].max_attendees

\* C6: the store never holds two attendance rows for one (user, event) pair.
C6_OneRowPerPair ==
    \A u \in Users, e \in EventIds : dbAttendees[u][e] <= 1

\* C6 witness: two tabs of one user; the second insert for the pair came
\* back with the unique violation while the first row is in the table.
C6_Witness ==
    \E t \in Tabs, k \in Slots, t2 \in Tabs :
        /\ t2 # t
        /\ k \in DOMAIN pending[t]
        /\ pending[t][k].pc = "insertResp"
        /\ pending[t][k].err = "23505"
        /\ userId[t2] = userId[t]
        /\ dbAttendees[userId[t]][pending[t][k].ev] = 1

\* C7: a cancel for a pair without attendance row leaves the table as it is
\* and comes back without error, and cancelRsvp then reports success: the
\* handler takes its success path (notice "canceled"), every time.
C7_CancelWithoutRow ==
    [][\A t \in Tabs, k \in Slots :
          /\ (/\ Acts(t, k)
              /\ pending[t][k].pc = "delete"
              /\ dbAttendees[pending[t][k].user][pending[t][k].ev] = 0
              /\ faults' = faults)
             => (/\ dbAttendees' = dbAttendees
                 /\ pending'[t][k].err = "none"
                 /\ pending'[t][k].n = 0)
          /\ (/\ Acts(t, k)
              /\ pending[t][k].pc = "deleteResp"
              /\ pending[t][k].err = "none"
              /\ pending[t][k].n = 0)
             => (/\ Ends(t, k)
                 /\ lastToast'[t] = "cancel_ok"
                 /\ UNCHANGED storeVars)]_vars

\* C7 witness: two cancels in a row found no row to delete and came back
\* without error, after the one that deleted the row reported success.
C7_Witness ==
    \E t \in Tabs, t2 \in Tabs, k \in Slots, k2 \in Slots :
        /\ <<t, k>> # <<t2, k2>>
        /\ k \in DOMAIN pending[t] /\ k2 \in DOMAIN pending[t2]
        /\ \A o \in {pending[t][k], pending[t2][k2]} :
              o.pc = "deleteResp" /\ o.err = "none" /\ o.n = 0
        /\ pending[t][k].user = pending[t2][k2].user
        /\ pending[t][k].ev = pending[t2][k2].ev
        /\ \E t3 \in Tabs : lastToast[t3] = "cancel_ok"

\* A store read or write of handler k fails in this step or has failed:
\* the event row is not found, the insert or the delete came back with an
\* error other than the unique violation.
StoreFailure(t, k) ==
    \/ /\ pending[t][k].pc = "select"
       /\ (pending[t][k].ev \notin DOMAIN dbEvents \/ faults' # faults)
    \/ /\ pending[t][k].pc = "insertResp"
       /\ pending[t][k].err \notin {"none", "23505"}
    \/ /\ pending[t][k].pc = "deleteResp"
       /\ pending[t][k].err # "none"

\* C8: a failed store read or write ends the toggle in its catch block: an
\* error notice is issued, and neither the start of the toggle nor its end
\* changes the events list or the membership map.
C8_FailureLeavesView ==
    [][\A t \in Tabs :
          /\ \A k \in Slots :
                (Acts(t, k) /\ StoreFailure(t, k))
                => /\ Ends(t, k)
                   /\ lastToast'[t] \in {"notfound", "failed", "failed_status"}
                   /\ IsErrorToast(lastToast'[t])
                   /\ events'[t] = events[t]
                   /\ userRsvps'[t] = userRsvps[t]
          /\ Len(pending'[t]) > Len(pending[t])
                => (events'[t] = events[t] /\ userRsvps'[t] = userRsvps[t])]_vars

\* C8 witness: the event row was deleted while the tab still showed the
\* event; the toggle ended with "no longer exists" and the view kept its
\* entry and its (empty) membership.
C8_Witness ==
    \E e \in EventIds :
        /\ lastToast["t1"] = "notfound"
        /\ e \notin DOMAIN dbEvents
        /\ Len(Entries("t1", e)) = 1
        /\ e \notin userRsvps["t1"]
        /\ faults = 0

\* A handler of tab t ran without a resolved user identity in this step.
LoginNotice(t) ==
    /\ lastToast'[t] # lastToast[t]
    /\ lastToast'[t] \in {"login_rsvp", "login_create"}

\* C9 (as claimed): a toggle or an event creation without user identity
\* redirects to sign-in.
C9_Claim ==
    \A t \in Tabs :
        lastToast[t] \in {"login_rsvp", "login_create"} => redirected[t]

\* C9 (amended): a tab without user identity never has a request of
\* handleToggleRsvp or handleAddEvent in flight, its membership map never
\* changes, its events list changes only by realtime callbacks, and its
\* handlers issue the error notice and neither touch the store nor redirect.
C9_NoIdentityNoRequest ==
    [][\A t \in Tabs :
          (userId[t] = NoUser /\ mountPc[t] = "done")
          => /\ pending'[t] = <<>>
             /\ userRsvps'[t] = userRsvps[t]
             /\ redirected'[t] = redirected[t]
             /\ (events'[t] # events[t] => feed'[t] # feed[t])
             /\ (lastToast'[t] # lastToast[t] /\ feed'[t] = feed[t])
                => (/\ LoginNotice(t)
                    /\ IsErrorToast(lastToast'[t])
                    /\ UNCHANGED storeVars)]_vars

\* C9 witness: no profile was found, so there is no user identity and no
\* redirect; an event arrived by realtime INSERT and the toggle issued
\* "You must be logged in to RSVP".
C9_Witness ==
    /\ userId["t1"] = NoUser
    /\ events["t1"] # <<>>
    /\ mountPc["t1"] = "done"
    /\ ~redirected["t1"]
    /\ lastToast["t1"] = "login_rsvp"
    /\ pending["t1"] = <<>>

\* C10: applying a DELETE notification for event X leaves the list without
\* any entry for X and with every other entry as it was, in the same order;
\* the selected event and the membership map do not change.
C10_DeleteNotification ==
    [][\A t \in Tabs :
          (/\ feed[t] # <<>>
           /\ Head(feed[t]).type = "DELETE"
           /\ feed'[t] = Tail(feed[t]))
          => LET x == Head(feed[t]).id
             IN /\ \A i \in DOMAIN events'[t] : events'[t][i].id # x
                /\ events'[t] = SelectSeq(events[t], LAMBDA e : e.id # x)
                /\ selectedEvent'[t] = selectedEvent[t]
                /\ userRsvps'[t] = userRsvps[t]]_vars

\* C10 witness: the deleted event is the one shown in the detail view; the
\* list has lost it and kept another entry.
C10_Witness ==
    /\ lastToast["t1"] = "deleted"
    /\ selectedEvent["t1"] # <<>>
    /\ Len(Entries("t1", selectedEvent["t1"][1].id)) = 0
    /\ selectedEvent["t1"][1].id \notin DOMAIN dbEvents
    /\ events["t1"] # <<>>
\* C11: when fetchUserAndEvents of a signed-in user with a profile gets the
\* answer of fetchPublicEvents, the events list becomes that answer; when it
\* gets the answer of the membership request, the membership map is true
\* for exactly the event ids of the rows the store returned (none when the
\* request failed); and whenever the sequence ends, on success or on any
\* failure, isLoading is false.
C11_MountLoads ==
    [][\A t \in Tabs :
          /\ (mountPc[t] = "fetch" /\ mountPc'[t] = "rsvps")
                => events'[t] = FetchPublicEvents
          /\ (mountPc[t] = "rsvps" /\ mountPc'[t] = "done")
                => userRsvps'[t] =
                      IF faults' = faults
                      THEN {e \in EventIds : dbAttendees[userId[t]][e] > 0}
                      ELSE {}
          /\ (mountPc'[t] = "done") => ~isLoading'[t]]_vars

\* C11 witness: the mount of u1, who RSVP'd to event 1 in an earlier
\* session, has completed: one entry with one attendee, membership {1}.
C11_Witness ==
    /\ mountPc["t1"] = "done"
    /\ userId["t1"] = "u1"
    /\ ~isLoading["t1"]
    /\ ops = 0
    /\ Len(events["t1"]) = 1
    /\ events["t1"][1].attendees = 1
    /\ userRsvps["t1"] = {1}

\* C17: in every reachable state a dashboard whose event-creation modal is
\* open, or which has a createEvent call in flight, has userRole "faculty";
\* and userRole is "student" as long as no profile has been found.
C17_CreationOnlyFaculty ==
    \A t \in Tabs :
        /\ (isAddEventModalOpen[t] \/ CreatePending(t))
              => userRole[t] = "faculty"
        /\ userId[t] = NoUser => userRole[t] = "student"

\* C17 witness: the faculty member's modal is open and createEvent's insert
\* is in flight.
C17_Witness ==
    /\ userRole["t2"] = "faculty"
    /\ isAddEventModalOpen["t2"]
    /\ \E k \in DOMAIN pending["t2"] : pending["t2"][k].pc = "create"

\* C12: every mounted dashboard holds exactly one live subscription and an
\* unmounted one holds none, so the live subscriptions are as many as the
\* mounted dashboards, zero when all are unmounted.
C12_OneSubscriptionPerMount ==
    \A t \in Tabs : channels[t] = IF mountPc[t] = "unmounted" THEN 0 ELSE 1

\* C12 witness: after three unmounts (so at least one tab was mounted
\* again in between) every dashboard is unmounted.
C12_Witness ==
    /\ ops = MaxOps
    /\ \A t \in Tabs : mountPc[t] = "unmounted" /\ channels[t] = 0

\* The data of the call that a step adds to onSubmitCalls.
Submitted == addEventModal'.onSubmitCalls[Len(addEventModal'.onSubmitCalls)]

SubmitCalled ==
    Len(addEventModal'.onSubmitCalls) > Len(addEventModal.onSubmitCalls)

\* C13 (as claimed): onSubmit is never invoked with an end time that is not
\* after the start time, or with a blank organizer name or e-mail.
C13_Claim ==
    [][SubmitCalled =>
          /\ Submitted.endDateTime > Submitted.startDateTime
          /\ Trim(Submitted.organizerName) # <<>>
          /\ Trim(Submitted.organizerEmail) # <<>>]_vars

\* An organizer e-mail of the form local@domain.tld: one "@", no blank,
\* something before the "@", and after it a "." with something on both
\* sides.
WellFormedEmail(s) ==
    /\ Cardinality({n \in 1..Len(s) : s[n] = "@"}) = 1
    /\ \A n \in 1..Len(s) : s[n] # " "
    /\ LET at == CHOOSE n \in 1..Len(s) : s[n] = "@"
       IN /\ at > 1
          /\ \E n \in (at + 2)..(Len(s) - 1) : s[n] = "."

C15_SubmitFlow ==
    [][LET m == addEventModal
           n == addEventModal'
       IN /\ SubmitCalled
               => /\ ValidateForm(m.formData) = {}
                  /\ n.onSubmitCalls = Append(m.onSubmitCalls, m.formData)
                  /\ n.formData = m.formData
                  /\ n.onCloseCalls = m.onCloseCalls
          /\ (HandleSubmit /\ ValidateForm(m.formData) = {}) => SubmitCalled
          /\ (m.submitPc = "idle" /\ n.submitPc = "awaiting") => SubmitCalled
          /\ (m.submitPc = "awaiting" /\ n.submitPc # "awaiting")
               => n.formData = m.formData /\ n.onCloseCalls = m.onCloseCalls
          /\ (m.submitPc = "resolved" /\ n.submitPc = "idle")
               => /\ n.formData = EmptyForm
                  /\ n.onCloseCalls = m.onCloseCalls + 1
                  /\ ~n.isOpen
          /\ (m.submitPc = "rejected" /\ n.submitPc = "idle")
               => /\ n.formData = m.formData
                  /\ n.onCloseCalls = m.onCloseCalls
                  /\ n.isOpen = m.isOpen
                  /\ "general" \in {e[1] : e \in n.errors}]_vars

\* C15 witness: a valid form was submitted, onSubmit was fulfilled, and the
\* modal is closed with its form reset.
C15_Witness ==
    /\ Len(addEventModal.onSubmitCalls) = 1
    /\ ValidateForm(addEventModal.onSubmitCalls[1]) = {}
    /\ addEventModal.submitPc = "idle"
    /\ ~addEventModal.isSubmitting
    /\ addEventModal.formData = EmptyForm
    /\ addEventModal.onCloseCalls = 1
    /\ ~addEventModal.isOpen

\* C18: the submit of the code goes on, after its timer, to invoke onSuccess
\* once when the code entered at the submit is the valid faculty code, and
\* otherwise to show 'Invalid code. Please try again.' without invoking
\* onSuccess; nothing else invokes onSuccess.
C18_OnSuccessIffValidCode ==
    [][LET m == facultyCodeModal
           n == facultyCodeModal'
       IN /\ Len(n.timers) > Len(m.timers)
               => n.timers = Append(m.timers, m.facultyCode)
          /\ Len(n.timers) < Len(m.timers)
               => IF Head(m.timers) = VALID_FACULTY_CODE
                  THEN /\ n.onSuccessCalls = m.onSuccessCalls + 1
                       /\ n.error = m.error
                  ELSE /\ n.onSuccessCalls = m.onSuccessCalls
                       /\ n.error = "Invalid code. Please try again."
          /\ Len(n.timers) >= Len(m.timers)
               => n.onSuccessCalls = m.onSuccessCalls]_vars

\* C18 witness: the valid code was submitted and has led to one onSuccess
\* call and no error message.
C18_Witness ==
    /\ facultyCodeModal.onSuccessCalls = 1
    /\ facultyCodeModal.timers = <<>>
    /\ facultyCodeModal.facultyCode = VALID_FACULTY_CODE
    /\ facultyCodeModal.error = "null"
    /\ ~facultyCodeModal.isSubmitting

\* C19 (as claimed): whenever the modal goes from closed to open, the code
\* input is empty.
C19_Claim ==
    [][(~facultyCodeModal.isOpen /\ facultyCodeModal'.isOpen)
          => facultyCodeModal'.facultyCode = ""]_vars

\* C20: a click on a button that is not disabled (disabled false or left
\* out) invokes onToggle once, with the event's id; a click on a disabled
\* button invokes nothing; and the maximum-capacity message is rendered
\* exactly when the button is disabled and the user is not attending.
C20_ClickAndMessage ==
    [][/\ ClickRsvp =>
            rsvpButton'.onToggleCalls =
               IF rsvpButton.props.disabled = "true"
               THEN rsvpButton.onToggleCalls
               ELSE Append(rsvpButton.onToggleCalls, rsvpButton.props.eventId)
       /\ ShowsCapacityMessage(rsvpButton'.props)
            <=> /\ rsvpButton'.props.disabled = "true"
                /\ ~rsvpButton'.props.isRsvpd
      ]_vars

\* C20 witness: the button of event 2 was clicked once while enabled; it is
\* now disabled for a user who is not attending, and shows the message.
C20_Witness ==
    /\ rsvpButton.onToggleCalls = <<2>>
    /\ rsvpButton.props.eventId = 2
    /\ rsvpButton.props.disabled = "true"
    /\ ~rsvpButton.props.isRsvpd
    /\ ShowsCapacityMessage(rsvpButton.props)

\* C16 (as claimed): onEditEvent is invoked for the shown event only if the
\* signed-in user's profile role is faculty and the profile e-mail equals
\* that event's organizer e-mail; a click on Edit while a check is in
\* flight invokes nothing and shows the error notice.
C16_Claim ==
    [][LET m == eventDetailsModal
           n == eventDetailsModal'
       IN /\ Len(n.onEditCalls) > Len(m.onEditCalls)
               => /\ m.user # NoUser
                  /\ ProfileRole(m.user) = "faculty"
                  /\ ProfileEmail(m.user) = m.event[1].organizerEmail
          /\ (HandleEditClick /\ m.checks # <<>>)
               => /\ n.onEditCalls = m.onEditCalls
                  /\ n.toast = "only_organizer"]_vars

\* C21 (as claimed): the RSVP control of the detail view is disabled exactly
\* when the event has a capacity, its attendee count has reached it and the
\* user is not attending; for an event without capacity it is never
\* disabled.
C21_Claim ==
    \A t \in Tabs :
        selectedEvent[t] # <<>> =>
            LET event == selectedEvent[t][1]
            IN Disabled(DetailsButtonProps(t))
                  <=> /\ event.maxAttendees # Null
                      /\ event.attendees >= event.maxAttendees
                      /\ ~HasUserRsvpd(t, event.id)

\* A well-formed value: "(" number "," number ")", a number being digits
\* with an optional sign, with optional space after the comma (as
\* createEvent writes it).
IsNumeral(s) == IsDigits(s) \/ (s # <<>> /\ Head(s) = "-" /\ IsDigits(Tail(s)))

Numerals == {s \in UNION {[1..n -> {"-", "1"}] : n \in 1..MaxText} : IsNumeral(s)}

NumeralValue(s) ==
    IF Head(s) = "-" THEN 0 - Degrees(DigitsValue(Tail(s)))
    ELSE Degrees(DigitsValue(s))

Written(a, b) ==
    {<<"(">> \o a \o <<",">> \o b \o <<")">>,
     <<"(">> \o a \o <<",", " ">> \o b \o <<")">>}

WellFormedCoords(loc) ==
    ~loc.isNull /\ \E a, b \in Numerals : loc.text \in Written(a, b)

\* C22 (as claimed): a well-formed "(lng,lat)" value is parsed to the pair
\* (lng, lat), and an absent or malformed value to the default campus
\* coordinate.
C22_Claim ==
    transformed.pc = "done" =>
        LET loc == transformed.location_coordinates[1]
        IN /\ \A a, b \in Numerals :
                 (~loc.isNull /\ loc.text \in Written(a, b))
                    => transformed.coords =
                          <<Num(NumeralValue(a)), Num(NumeralValue(b))>>
           /\ ~WellFormedCoords(loc) => transformed.coords = DefaultCoords

\* The half of C22 that the code satisfies: well-formed and absent values.
C22_WellFormedOrAbsent ==
    transformed.pc = "done" =>
        LET loc == transformed.location_coordinates[1]
        IN /\ \A a, b \in Numerals :
                 (~loc.isNull /\ loc.text \in Written(a, b))
                    => transformed.coords =
                          <<Num(NumeralValue(a)), Num(NumeralValue(b))>>
           /\ (loc.isNull \/ loc.text = <<>>)
                 => transformed.coords = DefaultCoords

\* C23: an INSERT notification appends one normalized entry for the new row
\* and leaves the existing entries as they are; an UPDATE notification
\* replaces the entries with the row's id by the normalized row and leaves
\* the length, the order and every other entry as they are (so it changes
\* nothing when no entry has that id).
C23_InsertAppendsUpdateReplaces ==
    [][\A t \in Tabs :
         LET old == events[t]
             new == events'[t]
             row == Head(feed[t])
         IN /\ OnInsert(t) =>
                  /\ Len(new) = Len(old) + 1
                  /\ \A i \in DOMAIN old : new[i] = old[i]
                  /\ new[Len(new)].id = row.id
                  /\ new[Len(new)].maxAttendees = row.max_attendees
                  /\ new[Len(new)].attendees = 0
            /\ OnUpdate(t) =>
                  /\ Len(new) = Len(old)
                  /\ \A i \in DOMAIN old :
                        /\ new[i].id = old[i].id
                        /\ old[i].id # row.id => new[i] = old[i]
                        /\ old[i].id = row.id =>
                              /\ new[i].maxAttendees = row.max_attendees
                              /\ new[i].attendees = 0
                  /\ (\A i \in DOMAIN old : old[i].id # row.id) => new = old
      ]_vars

\* An UPDATE of event 2, received by INSERT, has been applied next to the
\* entry of event 1, which keeps its attendee.
C23_Witness ==
    /\ lastToast["t1"] = "updated"
    /\ Len(events["t1"]) = 2
    /\ events["t1"][1].id = 1
    /\ events["t1"][1].attendees = 1
    /\ events["t1"][2].id = 2
    /\ feed["t1"] = <<>>

\* C24 (as claimed): after an UPDATE notification for an event is applied,
\* the displayed attendee count of that event is the number of attendance
\* rows the store holds for it.
C24_Claim ==
    [][\A t \in Tabs :
         OnUpdate(t) =>
            \A i \in DOMAIN events'[t] :
               events'[t][i].id = Head(feed[t]).id =>
                  events'[t][i].attendees
                     = AttendeeCount(dbAttendees', events'[t][i].id)
      ]_vars

\* The tab is the only session of its user: the other tab belongs to
\* nobody or to another user.
SingleSession(t) == \A o \in Tabs \ {t} : userId[o] # userId[t]

\* C25 (as claimed): after a successful mount, in the only session of its
\* user, whenever no RSVP toggle is in flight the membership map has an
\* event exactly when the store holds the attendance row of the user and
\* the event.
C25_Claim ==
    \A t \in Tabs :
        (/\ mountPc[t] = "done"
         /\ userId[t] # NoUser
         /\ faults = 0
         /\ SingleSession(t)
         /\ pending[t] = <<>>)
        => \A e \in EventIds :
              HasUserRsvpd(t, e) <=> dbAttendees[userId[t]][e] > 0

\* An RSVP toggle of event e is in flight in tab t, and the tab's list has
\* no entry for e (a DELETE notification has removed it, or the toggle was
\* made from the detail view of an entry already removed).
ToggleOfRemoved(t, k) ==
    /\ k \in DOMAIN pending[t]
    /\ pending[t][k].kind \in {"rsvp", "cancel"}
    /\ Entries(t, pending[t][k].ev) = <<>>

\* C26: while a toggle of an event is in flight and the list has no entry
\* for the event, none appears; and when the toggle's response is
\* processed the events list is left exactly as it was: no entry for the
\* event, every other entry with its attendee count.
C26_ResponseAfterDelete ==
    [][\A t \in Tabs : \A k \in Slots :
         ToggleOfRemoved(t, k) =>
            /\ EntriesAfter(t, pending[t][k].ev) = <<>>
            /\ Ends(t, k) => events'[t] = events[t]
      ]_vars

\* Event 1 was deleted after the RSVP's insert and the DELETE notification
\* was applied before the RSVP's response, which has now been processed;
\* the list holds the entry of event 2.
C26_Witness ==
    /\ lastToast["t1"] = "rsvp_ok"
    /\ 1 \notin DOMAIN dbEvents
    /\ pending["t1"] = <<>>
    /\ Len(events["t1"]) = 1
    /\ events["t1"][1].id = 2

\* C27 (as claimed): no two entries of a tab's events list have the same id.
C27_Claim ==
    \A t \in Tabs : \A i, j \in DOMAIN events[t] :
        events[t][i].id = events[t][j].id => i = j

\* C28 (as claimed): every entry of a tab's events list is a public event
\* (with the status "available" that every row has).
C28_Claim ==
    \A t \in Tabs : \A i \in DOMAIN events[t] : events[t][i].isPublic

\* C29 (as claimed): when createEvent fails at the store, or no user
\* identity is resolved, the add-event flow issues no success notice and
\* the add-event modal stays open.
C29_Claim ==
    [][\A t \in Tabs :
         /\ \A k \in Slots :
               (/\ k \in DOMAIN pending[t]
                /\ pending[t][k].pc = "createResp"
                /\ pending[t][k].err # "none"
                /\ Ends(t, k))
               => /\ lastToast'[t] # "create_ok"
                  /\ isAddEventModalOpen'[t]
         /\ (/\ userId[t] = NoUser
             /\ \E eventData \in EventFormData : HandleAddEvent(t, eventData))
               => /\ lastToast'[t] # "create_ok"
                  /\ isAddEventModalOpen'[t]
      ]_vars

\* C30 (as claimed): while the detail view shows an event that has an entry
\* in the events list, the attendee count and the at-capacity state it
\* shows are those of that entry.
C30_Claim ==
    \A t \in Tabs :
        selectedEvent[t] # <<>> =>
            LET shown == selectedEvent[t][1]
                isRsvpd == HasUserRsvpd(t, shown.id)
            IN \A i \in DOMAIN events[t] :
                  events[t][i].id = shown.id =>
                     /\ DetailsButtonProps(t).count = events[t][i].attendees
                     /\ IsAtCapacity(shown, isRsvpd)
                           = IsAtCapacity(events[t][i], isRsvpd)

====
